---- MODULE Spec2Model ----
(***************************************************************************)
(* Model of src/users_router.rs: the CORS after-middleware (CORS::after    *)
(* over CORS::ENDPOINTS), the routing table built by UsersRouter::new, the *)
(* not_implemented stubs and the setup (bootstrap) handler.                *)
(*                                                                         *)
(* An Option<T> is a sequence of length 0 (None) or 1 (Some(x)).           *)
(***************************************************************************)
EXTENDS Integers, Sequences, FiniteSets, TLC

VARIABLES pc, req, resIn, result, store, trace

vars == <<pc, req, resIn, result, store, trace>>

None == <<>>

Some(x) == <<x>>

\* ------------------------------------------------------------------ bounds
\* longest request path (in segments) that is enumerated
MaxSegs == 3

\* most records the user store holds before setup stops adding to it
MaxStore == 1

\* ------------------------------------------------------- CORS::ENDPOINTS
ENDPOINTS ==
  << [method |-> "Post",   path |-> <<"invitations">>],
     [method |-> "Get",    path |-> <<"invitations">>],
     [method |-> "Delete", path |-> <<"invitations">>],
     [method |-> "Post",   path |-> <<"users">>],
     [method |-> "Get",    path |-> <<"users">>],
     [method |-> "Put",    path |-> <<"users", "*">>],
     [method |-> "Post",   path |-> <<"users", "*">>],
     [method |-> "Post",   path |-> <<"recoveries", "*">>],
     [method |-> "Get",    path |-> <<"recoveries", "*", "*">>],
     [method |-> "Get",    path |-> <<"permissions">>],
     [method |-> "Get",    path |-> <<"permissions", "*">>],
     [method |-> "Get",    path |-> <<"permissions", "*", "*">>],
     [method |-> "Get",    path |-> <<"permissions", "_", "*">>],
     [method |-> "Put",    path |-> <<"permissions", "*", "*">> ] >>

\* ------------------------------------------------------------- responses
\* hyper's typed header map: one optional value per header type.
\*   acao  Access-Control-Allow-Origin   ("*" is AccessControlAllowOrigin::Any)
\*   acah  Access-Control-Allow-Headers  (UniCase names, kept lower-cased)
\*   acam  Access-Control-Allow-Methods  (the Vec<Method>, in order)
\*   ctype Content-Type                  (a header the gate never touches)
NoHeaders == [acao |-> None, acah |-> None, acam |-> None, ctype |-> None]

\* Response::new()
ResponseNew == [status |-> None, headers |-> NoHeaders, body |-> None]

\* Response::with(status)
ResponseWith(code) == [status |-> Some(code), headers |-> NoHeaders, body |-> None]

\* Ok(response)
IronOk(res) == [outcome |-> "Ok", res |-> res, error |-> ""]

\* EndpointError::new(StringError(description), code):
\* Err(IronError::new(error, code)), whose response is Response::with(code)
EndpointError(description, code) ==
  [outcome |-> "Err", res |-> ResponseWith(code), error |-> description]

\* a panic unwinding out of the handler: no response is produced
Panicked == [outcome |-> "Panic", res |-> ResponseNew, error |-> ""]

\* ------------------------------------------------------------ CORS::after
\* line 60-61: the test that breaks out of the segment loop
SegmentMismatch(seg, pat) == seg # pat /\ "*" # pat

\* lines 58-65: the inner loop over one endpoint's segments, from index i,
\* with the carried flag; returns the flag as the loop leaves it
RECURSIVE SegmentLoop(_, _, _, _)
SegmentLoop(path, reqPath, i, flag) ==
  IF i > Len(path) THEN flag
  ELSE IF SegmentMismatch(reqPath[i], path[i]) THEN FALSE
  ELSE SegmentLoop(path, reqPath, i + 1, TRUE)

\* the outer loop with the break of lines 66-68 left out
RECURSIVE EndpointLoopNoBreak(_, _, _)
EndpointLoopNoBreak(r, k, flag) ==
  IF k > Len(ENDPOINTS) THEN flag
  ELSE IF r.method # ENDPOINTS[k].method THEN EndpointLoopNoBreak(r, k + 1, flag)
  ELSE IF Len(ENDPOINTS[k].path) # Len(r.path) THEN EndpointLoopNoBreak(r, k + 1, flag)
  ELSE EndpointLoopNoBreak(r, k + 1, SegmentLoop(ENDPOINTS[k].path, r.path, 1, flag))

\* the outer loop with the length test of line 55 relaxed to a prefix test
RECURSIVE EndpointLoopPrefix(_, _, _)
EndpointLoopPrefix(r, k, flag) ==
  IF k > Len(ENDPOINTS) THEN flag
  ELSE IF r.method # ENDPOINTS[k].method THEN EndpointLoopPrefix(r, k + 1, flag)
  ELSE IF Len(ENDPOINTS[k].path) > Len(r.path) THEN EndpointLoopPrefix(r, k + 1, flag)
  ELSE LET f == SegmentLoop(ENDPOINTS[k].path, r.path, 1, flag)
       IN  IF f THEN TRUE ELSE EndpointLoopPrefix(r, k + 1, f)

\* lines 49-69: the scan of the registry from entry k with the carried flag
RECURSIVE EndpointLoop(_, _, _)
EndpointLoop(r, k, flag) ==
  IF k > Len(ENDPOINTS) THEN flag
  ELSE IF r.method # ENDPOINTS[k].method THEN EndpointLoop(r, k + 1, flag)
  ELSE IF Len(ENDPOINTS[k].path) # Len(r.path) THEN EndpointLoop(r, k + 1, flag)
  ELSE LET f == SegmentLoop(ENDPOINTS[k].path, r.path, 1, flag)
       IN  IF f THEN TRUE ELSE EndpointLoop(r, k + 1, f)

\* the value of is_cors_endpoint at line 71
is_cors_endpoint(r) == EndpointLoop(r, 1, FALSE)

\* lines 75-80: the three headers.set calls; set replaces the typed entry
SetCorsHeaders(h) ==
  [h EXCEPT !.acao = Some("*"),
            !.acah = Some({"accept", "content-type"}),
            !.acam = Some(<<"Get", "Head", "Post", "Delete", "Options", "Put", "Patch">>)]

\* lines 46-82: CORS::after(req, res), the response inside the Ok
after(r, res) ==
  IF ~is_cors_endpoint(r) THEN res
  ELSE [res EXCEPT !.headers = SetCorsHeaders(res.headers)]

\* ------------------------------------------------- UsersRouter::not_implemented
\* the stub answering 200 instead of 501
not_implemented_ok(r) == IronOk(ResponseWith("Ok"))

\* lines 112-114
not_implemented(r) == IronOk(ResponseWith("NotImplemented"))

\* ------------------------------------------------------- request bodies
\* A body is what its bytes amount to for read_to_string and json::decode:
\* whether they are UTF-8, whether they are syntactically JSON, and the
\* three fields of the object (absent = None).
Body(utf8, syntax, username, email, password) ==
  [utf8 |-> utf8, syntax |-> syntax, username |-> username,
   email |-> email, password |-> password]

\* lines 117-122 and 126: json::decode into SetupBody; username and email
\* are Option fields, password is required
json_decode(payload) ==
  IF ~payload.syntax THEN [ok |-> FALSE, description |-> "ParseError"]
  ELSE IF payload.password = None
       THEN [ok |-> FALSE, description |-> "MissingFieldError"]
  ELSE [ok |-> TRUE, description |-> ""]

\* lines 136-139
EmailOf(body) == IF body.email = None THEN "" ELSE body.email[1]

\* lines 141-144
NameOf(body) == IF body.username = None THEN "admin" ELSE body.username[1]

\* ------------------------------------------- users_db (not in this file)
\* the addresses the builder accepts as syntactically valid
WellFormedEmails == {"a@b.c"}

\* UserBuilder::new().name(..).email(..).password(..).finalize():
\* error "None" is Ok(user); any other error is Err with the error kind
\* and the record as built so far
UserBuilder(name, email, password) ==
  LET user == [name |-> name, email |-> email, password |-> password]
  IN  IF password = "" THEN [error |-> "InvalidPassword", user |-> user]
      ELSE IF name = "" THEN [error |-> "InvalidName", user |-> user]
      ELSE IF email # "" /\ email \notin WellFormedEmails
           THEN [error |-> "InvalidEmail", user |-> user]
      ELSE IF email = "" THEN [error |-> "EmptyEmail", user |-> user]
      ELSE [error |-> "None", user |-> user]

\* UsersDb::create(user): the storage outcome is the store's own business
UsersDb_create(st, user, outcome) ==
  IF outcome = "ok" THEN [ok |-> TRUE, err |-> "", store |-> Append(st, user)]
  ELSE [ok |-> FALSE, err |-> outcome, store |-> st]

\* ---------------------------------------------------- UsersRouter::setup
\* what one request did: whether decode succeeded, how often the builder
\* ran and what it answered, the records handed to create and its error
NoTrace == [decoded |-> FALSE, builds |-> 0, buildError |-> "None",
            created |-> <<>>, createError |-> ""]

\* the parse failure answered with a fixed text
ParseFailureGeneric(description) == EndpointError("Bad request", "BadRequest")

\* lines 128-133
ParseFailure(description) == EndpointError(description, "BadRequest")

\* no builder error is waived
WaivedNever(error) == FALSE

\* every builder error is waived
WaivedAlways(error) == TRUE

\* line 153: the one builder error the handler goes on with
Waived(error) == error = "EmptyEmail"

\* the storage error text passed on to the caller
CreateFailureLeaky(err) == EndpointError(err, "InternalServerError")

\* lines 166-171
CreateFailure(err) == EndpointError("Internal Server Error", "InternalServerError")

\* lines 116-173: the handler on request r over store st, create ending
\* as outcome says; gives the result, the store afterwards and the trace
setup(r, st, outcome) ==
  IF ~r.body.utf8
  THEN [result |-> Panicked, store |-> st, trace |-> NoTrace]
  ELSE LET dec == json_decode(r.body) IN
    IF ~dec.ok
    THEN [result |-> ParseFailure(dec.description), store |-> st, trace |-> NoTrace]
    ELSE LET built == UserBuilder(NameOf(r.body), EmailOf(r.body), r.body.password[1])
             t1    == [NoTrace EXCEPT !.decoded = TRUE, !.builds = 1,
                                        !.buildError = built.error]
         IN
      IF built.error # "None" /\ ~Waived(built.error)
      THEN [result |-> EndpointError("Bad request", "BadRequest"),
            store |-> st, trace |-> t1]
      ELSE LET c  == UsersDb_create(st, built.user, outcome)
               t2 == [t1 EXCEPT !.created = <<built.user>>, !.createError = c.err]
           IN  [result |-> IF c.ok THEN IronOk(ResponseWith("Ok"))
                           ELSE CreateFailure(c.err),
                store |-> c.store, trace |-> t2]

\* ------------------------------------------------------ UsersRouter::new
\* lines 178-196: the routes in registration order; a segment starting
\* with ':' is a path parameter. The glob of line 182 is written without
\* its leading slash, which the router strips from globs and paths alike
Routes ==
  << [method |-> "Post",   glob |-> <<"setup">>,                         handler |-> "setup"],
     [method |-> "Post",   glob |-> <<"invitations">>,                   handler |-> "not_implemented"],
     [method |-> "Get",    glob |-> <<"invitations">>,                   handler |-> "not_implemented"],
     [method |-> "Delete", glob |-> <<"invitations">>,                   handler |-> "not_implemented"],
     [method |-> "Post",   glob |-> <<"users">>,                         handler |-> "not_implemented"],
     [method |-> "Get",    glob |-> <<"users">>,                         handler |-> "not_implemented"],
     [method |-> "Put",    glob |-> <<"users", ":id">>,                  handler |-> "not_implemented"],
     [method |-> "Post",   glob |-> <<"users", ":id">>,                  handler |-> "not_implemented"],
     [method |-> "Post",   glob |-> <<"recoveries", ":user">>,           handler |-> "not_implemented"],
     [method |-> "Get",    glob |-> <<"recoveries", ":user", ":id">>,    handler |-> "not_implemented"],
     [method |-> "Get",    glob |-> <<"permissions">>,                   handler |-> "not_implemented"],
     [method |-> "Get",    glob |-> <<"permissions", ":user">>,          handler |-> "not_implemented"],
     [method |-> "Get",    glob |-> <<"permissions", ":user", ":taxon">>, handler |-> "not_implemented"],
     [method |-> "Get",    glob |-> <<"permissions", "_", ":taxon">>,    handler |-> "not_implemented"],
     [method |-> "Put",    glob |-> <<"permissions", ":user", ":taxon">>, handler |-> "not_implemented"] >>

\* the parameter names used in the globs
IsParam(seg) == seg \in {":id", ":user", ":taxon"}

\* a request path matches a glob: same length, literals equal, each
\* parameter bound to a non-empty segment
GlobMatches(glob, path) ==
  /\ Len(glob) = Len(path)
  /\ \A i \in 1..Len(glob) :
       IF IsParam(glob[i]) THEN path[i] # "" ELSE path[i] = glob[i]

\* the routes of the table a request matches
Matching(r) ==
  {k \in 1..Len(Routes) : Routes[k].method = r.method /\ GlobMatches(Routes[k].glob, r.path)}

\* how many parameters a glob has
Params(glob) == Cardinality({i \in 1..Len(glob) : IsParam(glob[i])})

\* the route the router dispatches to: the most specific match
Recognize(r) ==
  CHOOSE k \in Matching(r) :
    \A j \in Matching(r) :
      \/ Params(Routes[k].glob) < Params(Routes[j].glob)
      \/ Params(Routes[k].glob) = Params(Routes[j].glob) /\ k <= j

\* Router::handle: run the handler of the recognised route, or NoRoute
RouterHandle(r, st, outcome) ==
  IF Matching(r) = {}
  THEN [result |-> EndpointError("NoRoute", "NotFound"), store |-> st, trace |-> NoTrace]
  ELSE IF Routes[Recognize(r)].handler = "setup" THEN setup(r, st, outcome)
  ELSE [result |-> not_implemented(r), store |-> st, trace |-> NoTrace]

\* lines 198-201: Chain::new(router) with CORS linked after it. An Ok
\* response goes through CORS::after; an Err goes through the default
\* AfterMiddleware::catch, which hands it on as it is. handled is the
\* response as the router's handler left it
LinkAfter(r, h) ==
  IF h.result.outcome = "Ok"
  THEN [result |-> IronOk(after(r, h.result.res)), store |-> h.store,
        trace |-> h.trace, handled |-> h.result.res]
  ELSE [result |-> h.result, store |-> h.store,
        trace |-> h.trace, handled |-> h.result.res]

\* Handler::handle of the chain: the router, then the linked gate
ChainHandle(r, st, outcome) == LinkAfter(r, RouterHandle(r, st, outcome))

\* ------------------------------------------------------------ the inputs
\* request methods: the four the tables use and one they do not
Methods == {"Get", "Post", "Put", "Delete", "Patch"}

\* path segments: every literal of the registry, the wildcard marker and
\* "_" as values, an unregistered name, a name differing by case only,
\* an arbitrary value and the empty segment of a doubled or trailing slash
Segs == {"invitations", "users", "recoveries", "permissions", "setup",
         "Users", "_", "*", "foo", ""}

\* the paths of up to MaxSegs segments (a url has at least one)
Paths == UNION {[1..n -> Segs] : n \in 1..MaxSegs}

\* an empty body
EmptyBody == Body(TRUE, FALSE, None, None, None)

\* the requests the gate is called on
CorsRequests == {[method |-> m, path |-> p, body |-> EmptyBody] : m \in Methods, p \in Paths}

\* the responses the gate is called on: a fresh one, a stub's, and ones
\* that already carry headers, CORS headers among them
Responses ==
  { ResponseNew,
    ResponseWith("NotImplemented"),
    [status |-> Some("Ok"), body |-> Some("{}"),
     headers |-> [NoHeaders EXCEPT !.ctype = Some("application/json")]],
    [status |-> Some("Ok"), body |-> None,
     headers |-> [NoHeaders EXCEPT !.acao = Some("https://example.org")]],
    [status |-> Some("Ok"), body |-> Some("{}"),
     headers |-> [NoHeaders EXCEPT !.acah = Some({"x-token"}),
                                   !.acam = Some(<<"Get">>),
                                   !.ctype = Some("application/json")]] }

\* the setup bodies: not UTF-8, not JSON, no password field, and every
\* combination of the three fields
SetupBodies ==
  { Body(FALSE, FALSE, None, None, None),
    Body(TRUE, FALSE, None, None, None),
    Body(TRUE, TRUE, Some("bob"), Some("a@b.c"), None) }
  \cup
  { Body(TRUE, TRUE, u, e, Some(p)) :
      u \in {None, Some(""), Some("bob")},
      e \in {None, Some(""), Some("bad"), Some("a@b.c")},
      p \in {"", "pw"} }

\* the bodies sent to the other routes
OtherBodies == { EmptyBody, Body(TRUE, TRUE, None, None, Some("pw")) }

\* how a create call ends: success, or one of the storage errors
StoreOutcomes == {"ok", "disk I/O error", "UNIQUE constraint failed"}

\* the values a path parameter takes when the routes are called
ParamVals == {"foo", "_"}

\* the paths made from a glob by giving each parameter a value
Instances(glob) ==
  {p \in [1..Len(glob) -> Segs] :
     \A i \in 1..Len(glob) :
       IF IsParam(glob[i]) THEN p[i] \in ParamVals ELSE p[i] = glob[i]}

\* the paths the chain is called on, each with every method: every
\* route's, and one with a trailing slash in place of a parameter
ChainPaths ==
  UNION {Instances(Routes[k].glob) : k \in 1..Len(Routes)} \cup {<<"users", "">>}

\* the requests to POST /setup
SetupRequests ==
  {[method |-> "Post", path |-> <<"setup">>, body |-> b] : b \in SetupBodies}

\* the requests to everything else
OtherRequests ==
  {[method |-> m, path |-> p, body |-> b] :
     m \in Methods \ {"Patch"}, p \in ChainPaths, b \in OtherBodies}
  \ {r \in [method : {"Post"}, path : {<<"setup">>}, body : OtherBodies] : TRUE}

\* the request slot before any request
NoRequest == [method |-> "Get", path |-> <<"">>, body |-> EmptyBody]

\* ------------------------------------------------- the server, Spec
\* after UsersRouter::new(): nothing handled yet, the store empty
Init ==
  /\ pc = "ready"
  /\ req = NoRequest
  /\ resIn = ResponseNew
  /\ result = IronOk(ResponseNew)
  /\ store = <<>>
  /\ trace = NoTrace

\* Handler::handle(&chain, r): one request through router and CORS gate
Handle(r, outcome) ==
  \E h \in {ChainHandle(r, store, outcome)} :
      /\ pc \in {"ready", "handled"}
      /\ Len(h.store) <= MaxStore
      /\ pc' = "handled"
      /\ req' = r
      /\ resIn' = h.handled
      /\ result' = h.result
      /\ store' = h.store
      /\ trace' = h.trace

\* a client posts to /setup
HandleSetup == \E r \in SetupRequests, outcome \in StoreOutcomes : Handle(r, outcome)

\* a client calls any other method and path
HandleOther == \E r \in OtherRequests : Handle(r, "ok")

Next == HandleSetup \/ HandleOther

Spec == Init /\ [][Next]_vars

\* --------------------------------------- CORS::after on its own, SpecCors
\* the gate is handed any request and any response
InitCors ==
  /\ pc = "call"
  /\ req \in CorsRequests
  /\ resIn \in Responses
  /\ result = IronOk(ResponseNew)
  /\ store = <<>>
  /\ trace = NoTrace

\* CORS.after(&mut req, res)
CallAfter ==
  /\ pc = "call"
  /\ pc' = "returned"
  /\ result' = IronOk(after(req, resIn))
  /\ UNCHANGED <<req, resIn, store, trace>>

NextCors == CallAfter

SpecCors == InitCors /\ [][NextCors]_vars

\* ------------------------------------------------------------ properties
\* entry k of the registry matches r as the registry's comment reads it:
\* same method, same number of segments, each segment the literal or,
\* under a '*', anything
EntryMatches(k, r) ==
  /\ ENDPOINTS[k].method = r.method
  /\ Len(ENDPOINTS[k].path) = Len(r.path)
  /\ \A i \in 1..Len(r.path) :
       ENDPOINTS[k].path[i] = "*" \/ ENDPOINTS[k].path[i] = r.path[i]

\* r is entry k with each '*' replaced by a non-empty value
EntryInstance(k, r) ==
  /\ ENDPOINTS[k].method = r.method
  /\ Len(ENDPOINTS[k].path) = Len(r.path)
  /\ \A i \in 1..Len(r.path) :
       IF ENDPOINTS[k].path[i] = "*" THEN r.path[i] # ""
       ELSE ENDPOINTS[k].path[i] = r.path[i]

CorsHeaderNames == {"acao", "acah", "acam"}

HeaderNames == CorsHeaderNames \cup {"ctype"}

HasAllCors(res) == \A h \in CorsHeaderNames : res.headers[h] # None

HasNoCors(res) == \A h \in CorsHeaderNames : res.headers[h] = None

Returned == pc = "returned"

\* C1: a request that is a registry entry with its '*'s replaced by
\* non-empty values comes back from CORS.after as Ok with all three CORS
\* headers, whichever entry it is.
C1_RegisteredGetsCors ==
  (Returned /\ \E k \in 1..Len(ENDPOINTS) : EntryInstance(k, req))
    => (result.outcome = "Ok" /\ HasAllCors(result.res))

\* the last entry of the registry, reached after every other was scanned
C1_Witness ==
  /\ Returned
  /\ req.method = "Put" /\ req.path = <<"permissions", "foo", "*">>
  /\ resIn = ResponseNew
  /\ HasAllCors(result.res)

\* C2: a request that no registry entry matches (same method, same segment
\* count, '*' or the equal literal at each position) gets its response
\* back unmodified, and no CORS header that was not on it already.
C2_UnregisteredUntouched ==
  (Returned /\ ~ \E k \in 1..Len(ENDPOINTS) : EntryMatches(k, req))
    => /\ result = IronOk(resIn)
       /\ \A h \in CorsHeaderNames :
            resIn.headers[h] = None => result.res.headers[h] = None

\* a registered pattern as a strict prefix of the path
C2_Witness ==
  /\ Returned
  /\ req.method = "Get" /\ req.path = <<"users", "foo">>
  /\ resIn = ResponseNew
  /\ HasNoCors(result.res)

\* POST /setup, as in test_cors_allowed_endpoints
C2_WitnessSetup ==
  /\ Returned
  /\ req.method = "Post" /\ req.path = <<"setup">>
  /\ resIn = ResponseNew
  /\ result = IronOk(ResponseNew)

\* the methods of an Access-Control-Allow-Methods value
MethodsOf(acam) == {acam[1][i] : i \in 1..Len(acam[1])}

\* C3: on a CORS-eligible request the gate sets exactly three headers:
\* any origin, the headers accept and content-type, and the six methods
\* GET, HEAD, POST, DELETE, OPTIONS, PUT (no PATCH).
C3_ExactHeaderValues ==
  (Returned /\ resIn = ResponseNew /\ \E k \in 1..Len(ENDPOINTS) : EntryMatches(k, req))
    => /\ result.res.headers.acao = Some("*")
       /\ result.res.headers.acah = Some({"accept", "content-type"})
       /\ result.res.headers.acam # None
       /\ MethodsOf(result.res.headers.acam)
            = {"Get", "Head", "Post", "Delete", "Options", "Put"}
       /\ result.res.headers.ctype = None

\* C4: the gate only adds: every header on the incoming response is on
\* the outgoing one with the same value, and status and body are the same.
C4_OnlyAdds ==
  Returned
    => /\ result.res.status = resIn.status
       /\ result.res.body = resIn.body
       /\ \A h \in HeaderNames :
            resIn.headers[h] # None => result.res.headers[h] = resIn.headers[h]

\* C10: a '*' of a pattern matches only a non-empty segment: a request
\* that is no entry with its '*'s replaced by non-empty values is not
\* CORS-eligible and its response comes back as it went in.
C10_WildcardNeedsNonEmpty ==
  (Returned /\ ~ \E k \in 1..Len(ENDPOINTS) : EntryInstance(k, req))
    => result = IronOk(resIn)

\* --- the setup handler and the stubs, through the chain
IsSetup == pc = "handled" /\ req.method = "Post" /\ req.path = <<"setup">>

\* the body gets through read_to_string and json::decode
Parses(b) == b.utf8 /\ b.syntax /\ b.password # None

\* C5: a setup body that parses, with no or an empty email, a valid
\* username (or none) and a non-empty password: the builder answers
\* EmptyEmail, create is called exactly once with the record whose email
\* is empty, and when create succeeds the response is 200 OK.
C5_EmptyEmailWaived ==
  ( /\ IsSetup
    /\ Parses(req.body)
    /\ req.body.email \in {None, Some("")}
    /\ req.body.username # Some("")
    /\ req.body.password # Some("") )
    => /\ trace.builds = 1
       /\ trace.buildError = "EmptyEmail"
       /\ Len(trace.created) = 1
       /\ trace.created[1].email = ""
       /\ trace.created[1].name = NameOf(req.body)
       /\ trace.createError = ""
            => /\ result = IronOk(ResponseWith("Ok"))
               /\ store # <<>>
               /\ store[Len(store)] = trace.created[1]

C5_Witness ==
  /\ IsSetup
  /\ req.body = Body(TRUE, TRUE, Some("bob"), None, Some("pw"))
  /\ result.res.status = Some("Ok")
  /\ store = <<[name |-> "bob", email |-> "", password |-> "pw"]>>

\* C6: a builder failure other than EmptyEmail (an empty password, also
\* with the email missing) is answered 400 without a call of create, and
\* the store never holds a record with an empty password.
C6_HardFailureRejected ==
  /\ (IsSetup /\ trace.builds = 1 /\ trace.buildError \notin {"None", "EmptyEmail"})
       => /\ result.outcome = "Err"
          /\ result.res.status = Some("BadRequest")
          /\ trace.created = <<>>
  /\ (IsSetup /\ Parses(req.body) /\ req.body.password = Some(""))
       => /\ trace.builds = 1
          /\ result.res.status = Some("BadRequest")
          /\ trace.created = <<>>
  /\ \A i \in 1..Len(store) : store[i].password # ""

\* an empty password together with a missing email, after an earlier setup
C6_Witness ==
  /\ IsSetup
  /\ req.body = Body(TRUE, TRUE, None, None, Some(""))
  /\ result.res.status = Some("BadRequest")
  /\ trace.buildError = "InvalidPassword"
  /\ Len(store) = 1

C8_CreateFailure ==
  [][ (IsSetup' /\ trace'.createError # "")
        => /\ result' = EndpointError("Internal Server Error", "InternalServerError")
           /\ Len(trace'.created) = 1
           /\ store' = store ]_vars

C8_Witness ==
  /\ IsSetup
  /\ trace.createError = "UNIQUE constraint failed"
  /\ result.res.status = Some("InternalServerError")
  /\ result.error = "Internal Server Error"
  /\ Len(store) = 1

\* C9: every stub endpoint, called through the chain with non-empty
\* parameter values and any body, answers 501 and leaves the store alone
\* (create is not called).
C9_StubsNotImplemented ==
  [][ (pc' = "handled" /\ \E k \in 1..Len(ENDPOINTS) : EntryInstance(k, req'))
        => /\ result'.outcome = "Ok"
           /\ result'.res.status = Some("NotImplemented")
           /\ trace'.created = <<>>
           /\ store' = store ]_vars

C9_Witness ==
  /\ pc = "handled"
  /\ req.method = "Get" /\ req.path = <<"permissions", "_", "foo">>
  /\ req.body = Body(TRUE, TRUE, None, None, Some("pw"))
  /\ result.res.status = Some("NotImplemented")
  /\ Len(store) = 1

====
